---- MODULE Spec2Model ----
(***************************************************************************)
(* Model of bustub::ExtendibleHashTable<K, V>                              *)
(* (src/extendible_hash_table.cpp).                                        *)
(*                                                                         *)
(* The table is a directory dir_ of shared bucket handles, a global depth, *)
(* a bucket counter and the buckets themselves (heap objects, modelled as  *)
(* a function from bucket identities to records).  Every public operation  *)
(* runs under the table latch; Find and Remove are one step each, Insert   *)
(* is one step when the first bucket->Insert succeeds and otherwise walks  *)
(* through the body of its while loop statement by statement (pc), still   *)
(* holding the latch, so no other operation is enabled until it is back at *)
(* pc = "idle".                                                            *)
(*                                                                         *)
(* Directory slots are numbered 0 .. size-1 as in the code; the sequence   *)
(* dir holds slot i at position i + 1.                                     *)
(*                                                                         *)
(* Four specifications run the same actions: Spec (one caller; Find,       *)
(* Remove, Insert on any key), AccessSpec (one caller, with the accessors  *)
(* and GetLocalDepth on any index), ConcSpec (two threads that take and    *)
(* release the latch around every operation) and ScenarioSpec (the four    *)
(* Inserts of the scenario of the specification, in order).                *)
(***************************************************************************)
EXTENDS Integers, Sequences, FiniteSets, TLC

\* ------------------------------------------------------------------ bounds
\* Number of hash bits that the masks can select: `(1 << depth) - 1` is
\* computed in int (lines 31 and 129), so it has fewer bits than the size_t
\* hash it is applied to.  Keys that differ by a multiple of 2^HashWidth are
\* addressed alike at every depth.
HashWidth == 2
\* Width, in bits, of the size_t hash values: wider than the int masks.
FullHashWidth == HashWidth + 1
\* The constructor's bucket_size argument ranges over 1 .. MaxBucketSize.
MaxBucketSize == 2
\* The model stops growing the directory at this global depth, one past the
\* width of the hash values (the code has no such limit, see GrowGlobalDepth).
MaxDepth == FullHashWidth + 1

\* The keys of the calls: 0 .. 3 take every value of the two low hash bits,
\* and 4 agrees with 0 on them and differs in the next bit.
Keys == 0 .. 4
Vals == {"a", "b"}
\* The threads that call the table.
Threads == {1, 2}
\* Content of a caller's out-parameter that Find did not assign.
NoVal == "none"

VARIABLES
  dir,           \* dir_: sequence of bucket identities
  buckets,       \* the live Bucket objects: identity -> [size, depth, list]
  global_depth,  \* global_depth_
  num_buckets,   \* num_buckets_
  bucket_size,   \* bucket_size_
  pc,            \* position of the running Insert, "idle" when the latch is free
  bucket,        \* Insert's local `bucket` (0 when no Insert is running)
  split,         \* SplitBucket's locals while it runs
  op,            \* the call that runs or, at pc = "idle", completed last: its name,
                 \* arguments and result, and the loop iterations of an Insert
  latch,         \* latch_: the thread that owns the mutex, 0 when it is free
  threads,       \* each calling thread's position in its public operation
  calls          \* the Insert calls that have returned, in order: <<key, value>>

\* The table and the locals of the operation that runs on it.
table == <<dir, buckets, global_depth, num_buckets, bucket_size, pc, bucket, split, op>>
\* The callers.
callers == <<latch, threads, calls>>

vars == <<dir, buckets, global_depth, num_buckets, bucket_size, pc, bucket, split, op,
          latch, threads, calls>>

\* ----------------------------------------------------------- arithmetic
\* (1 << d) - 1
Mask(d) == 2 ^ d - 1

\* x & mask, for a mask of the form (1 << d) - 1
BitAnd(x, mask) == x % (mask + 1)

\* std::hash<K>()(key): for the integer keys the value of the key, as size_t
FullHash(key) == key % (2 ^ FullHashWidth)

\* The bits of std::hash<K>()(key) that `& mask` and `step1 &` keep.  Up to
\* depth HashWidth the int masks are exact; past it `(1 << depth) - 1`
\* overflows int, which is undefined, and the model follows the outcome in
\* which the mask selects no further bit of the hash.
Hash(key) == FullHash(key) % (2 ^ HashWidth)

IndexOf(gd, key) == BitAnd(Hash(key), Mask(gd))

Range(s) == {s[i] : i \in DOMAIN s}

\* --------------------------------------------------------------- Bucket
\* Bucket::Bucket(array_size, depth)
NewBucket(array_size, depth) == [size |-> array_size, depth |-> depth, list |-> <<>>]

\* IsFull answering one entry early.
IsFullOneEarly(b) == Len(b.list) + 1 >= b.size

\* list_.size() == size_
IsFull(b) == Len(b.list) = b.size

\* Position of the first entry of list with the given key, 0 if there is none.
Position(list, key) ==
  IF \E i \in DOMAIN list : list[i][1] = key
  THEN CHOOSE i \in DOMAIN list :
         /\ list[i][1] = key
         /\ \A j \in 1 .. (i - 1) : list[j][1] # key
  ELSE 0

\* Bucket::Find: [ret, value], value being what the out-parameter holds after.
BucketFind(b, key) ==
  LET p == Position(b.list, key) IN
  IF p # 0 THEN [ret |-> TRUE, value |-> b.list[p][2]]
  ELSE [ret |-> FALSE, value |-> NoVal]

\* Bucket::Remove erasing list_.begin() instead of the entry found.
BucketRemoveFront(b, key) ==
  LET p == Position(b.list, key) IN
  IF p # 0
  THEN [ret |-> TRUE, b |-> [b EXCEPT !.list = SubSeq(b.list, 2, Len(b.list))]]
  ELSE [ret |-> FALSE, b |-> b]

\* Bucket::Remove falling through to `return true` when the key is not found.
BucketRemoveAlwaysTrue(b, key) ==
  LET p == Position(b.list, key) IN
  IF p # 0
  THEN [ret |-> TRUE,
        b |-> [b EXCEPT !.list = SubSeq(b.list, 1, p - 1) \o SubSeq(b.list, p + 1, Len(b.list))]]
  ELSE [ret |-> TRUE, b |-> b]

\* Bucket::Remove: [ret, b], b being the bucket afterwards.
BucketRemove(b, key) ==
  LET p == Position(b.list, key) IN
  IF p # 0
  THEN [ret |-> TRUE,
        b |-> [b EXCEPT !.list = SubSeq(b.list, 1, p - 1) \o SubSeq(b.list, p + 1, Len(b.list))]]
  ELSE [ret |-> FALSE, b |-> b]

\* Bucket::Insert without `it->second = value` in the branch of a present key.
BucketInsertNoUpdate(b, key, value) ==
  LET p == Position(b.list, key) IN
  IF p # 0 THEN [ret |-> TRUE, b |-> b]
  ELSE IF IsFull(b) THEN [ret |-> FALSE, b |-> b]
  ELSE [ret |-> TRUE, b |-> [b EXCEPT !.list = Append(b.list, <<key, value>>)]]

\* Bucket::Insert without the IsFull() test.
BucketInsertNoFullCheck(b, key, value) ==
  LET p == Position(b.list, key) IN
  IF p # 0 THEN [ret |-> TRUE, b |-> [b EXCEPT !.list[p] = <<key, value>>]]
  ELSE [ret |-> TRUE, b |-> [b EXCEPT !.list = Append(b.list, <<key, value>>)]]

\* Bucket::Insert without the scan for a present key.
BucketInsertNoScan(b, key, value) ==
  IF IsFull(b) THEN [ret |-> FALSE, b |-> b]
  ELSE [ret |-> TRUE, b |-> [b EXCEPT !.list = Append(b.list, <<key, value>>)]]

\* Bucket::Insert with the IsFull() test ahead of the scan for a present key.
BucketInsertFullFirst(b, key, value) ==
  LET p == Position(b.list, key) IN
  IF IsFull(b) THEN [ret |-> FALSE, b |-> b]
  ELSE IF p # 0 THEN [ret |-> TRUE, b |-> [b EXCEPT !.list[p] = <<key, value>>]]
  ELSE [ret |-> TRUE, b |-> [b EXCEPT !.list = Append(b.list, <<key, value>>)]]

\* Bucket::Insert: [ret, b].
BucketInsert(b, key, value) ==
  LET p == Position(b.list, key) IN
  IF p # 0 THEN [ret |-> TRUE, b |-> [b EXCEPT !.list[p] = <<key, value>>]]
  ELSE IF IsFull(b) THEN [ret |-> FALSE, b |-> b]
  ELSE [ret |-> TRUE, b |-> [b EXCEPT !.list = Append(b.list, <<key, value>>)]]

\* ------------------------------------------------------------------ heap
\* std::make_shared<Bucket>: an identity no live bucket has.
FreshId(used) == CHOOSE n \in 1 .. (Cardinality(used) + 1) : n \notin used

\* shared_ptr reference counting: the buckets that some handle in `held` keeps alive.
Release(bs, held) == [id \in (DOMAIN bs) \cap held |-> bs[id]]

NoSplit == [bucket |-> 0, new_bucket |-> 0, new_bucket2 |-> 0, step1 |-> 0, step |-> 0]
NoOp == [name |-> "none", key |-> 0, value |-> NoVal, ret |-> FALSE, iterations |-> 0,
         result |-> 0]

\* ----------------------------------------------------------------- Init
InitGlobalDepth == 0
InitNumBuckets == 1

Init ==
  /\ bucket_size \in 1 .. MaxBucketSize
  /\ dir = <<1>>
  /\ buckets = [id \in {1} |-> NewBucket(bucket_size, 0)]
  /\ global_depth = InitGlobalDepth
  /\ num_buckets = InitNumBuckets
  /\ pc = "idle"
  /\ bucket = 0
  /\ split = NoSplit
  /\ op = NoOp
  /\ latch = 0
  /\ threads = [t \in Threads |-> "out"]
  /\ calls = <<>>

\* ------------------------------------------------------ public operations
\* What ExtendibleHashTable::Find reports for key on the table <<d, bs, gd>>.
TableFind(d, bs, gd, key) ==
  LET index == IndexOf(gd, key)
  IN  BucketFind(bs[d[index + 1]], key)

Find(key) ==
  /\ pc = "idle"
  /\ LET r == TableFind(dir, buckets, global_depth, key)
     IN  op' = [name |-> "Find", key |-> key, value |-> r.value, ret |-> r.ret,
                iterations |-> 0, result |-> 0]
  /\ UNCHANGED <<dir, buckets, global_depth, num_buckets, bucket_size, pc, bucket, split>>

\* Remove giving up the count of a bucket that it has emptied.
RemoveUncounting(key) ==
  /\ pc = "idle"
  /\ LET index == IndexOf(global_depth, key)
         b == dir[index + 1]
         r == BucketRemove(buckets[b], key)
     IN  /\ buckets' = [buckets EXCEPT ![b] = r.b]
         /\ op' = [name |-> "Remove", key |-> key, value |-> NoVal, ret |-> r.ret,
                   iterations |-> 0, result |-> 0]
         /\ num_buckets' = IF r.ret /\ r.b.list = <<>> /\ num_buckets > 1
                           THEN num_buckets - 1 ELSE num_buckets
  /\ UNCHANGED <<dir, global_depth, bucket_size, pc, bucket, split>>

Remove(key) ==
  /\ pc = "idle"
  /\ LET index == IndexOf(global_depth, key)
         b == dir[index + 1]
         r == BucketRemove(buckets[b], key)
     IN  /\ buckets' = [buckets EXCEPT ![b] = r.b]
         /\ op' = [name |-> "Remove", key |-> key, value |-> NoVal, ret |-> r.ret,
                   iterations |-> 0, result |-> 0]
  /\ UNCHANGED <<dir, global_depth, num_buckets, bucket_size, pc, bucket, split>>

\* The `while` condition of Insert, evaluated on the bucket that `index` addresses:
\* bucket->Insert(key, value) either stores the entry, and Insert returns, or
\* reports a full bucket, and the loop body runs.
TryInsert(d, bs, key, value) ==
  LET index == IndexOf(global_depth, key)
      b == d[index + 1]
      r == BucketInsert(bs[b], key, value)
  IN  IF r.ret
      THEN /\ buckets' = Release([bs EXCEPT ![b] = r.b], Range(d))
           /\ pc' = "idle"
           /\ bucket' = 0
      ELSE /\ buckets' = Release(bs, Range(d) \cup {b})
           /\ pc' = "body"
           /\ bucket' = b

\* Insert, lines 90-96: take the latch, address the bucket, first attempt.
Insert(key, value) ==
  /\ pc = "idle"
  /\ op' = [name |-> "Insert", key |-> key, value |-> value, ret |-> TRUE, iterations |-> 0,
            result |-> 0]
  /\ TryInsert(dir, buckets, key, value)
  /\ UNCHANGED <<dir, global_depth, num_buckets, bucket_size, split>>

\* Insert, lines 97-98: the full bucket is as deep as the directory, global_depth_++.
\* The code grows without limit; the model follows it up to MaxDepth.
GrowGlobalDepth ==
  /\ pc = "body"
  /\ global_depth = buckets[bucket].depth
  /\ global_depth < MaxDepth
  /\ global_depth' = global_depth + 1
  /\ pc' = "double"
  /\ UNCHANGED <<dir, buckets, num_buckets, bucket_size, bucket, split, op>>

\* Insert, line 97, condition false: the directory has room for the split.
NoGrow ==
  /\ pc = "body"
  /\ global_depth # buckets[bucket].depth
  /\ pc' = "split"
  /\ UNCHANGED <<dir, buckets, global_depth, num_buckets, bucket_size, bucket, split, op>>

\* DoubleDirectory appending the copies to the resized directory (push_back).
DoubledAppended(d) == d \o d \o d

\* DoubleDirectory copying dir_[0] into every new slot.
DoubledFirstSlot(d) == d \o [i \in 1 .. Len(d) |-> d[1]]

\* DoubleDirectory filling the new half from the end (dir_[2 * old_size - 1 - i]).
DoubledMirrored(d) == d \o [i \in 1 .. Len(d) |-> d[Len(d) + 1 - i]]

\* dir_ after DoubleDirectory: slot i + old_size is a copy of slot i.
Doubled(d) == d \o d

DoubleDirectory ==
  /\ pc = "double"
  /\ dir' = Doubled(dir)
  /\ pc' = "split"
  /\ UNCHANGED <<buckets, global_depth, num_buckets, bucket_size, bucket, split, op>>

\* SplitBucket telling the slots of `b` apart by bit 0 whatever the depth.
ReassignedByBit0(d, b, nb, nb2, step1, step) ==
  [p \in DOMAIN d |->
     IF BitAnd(p - 1, 1) # BitAnd(step, 1) /\ d[p] = b THEN nb
     ELSE IF BitAnd(p - 1, 1) = BitAnd(step, 1) /\ d[p] = b THEN nb2
     ELSE d[p]]

\* SplitBucket with new_bucket and new_bucket2 exchanged in the slot loop.
ReassignedSwapped(d, b, nb, nb2, step1, step) ==
  [p \in DOMAIN d |->
     IF BitAnd(p - 1, step1) # step /\ d[p] = b THEN nb2
     ELSE IF BitAnd(p - 1, step1) = step /\ d[p] = b THEN nb
     ELSE d[p]]

\* SplitBucket without the branch of line 133: the slots of `b` whose low
\* bits differ from step keep pointing at `b`.
ReassignedKeepOld(d, b, nb, nb2, step1, step) ==
  [p \in DOMAIN d |->
     IF BitAnd(p - 1, step1) = step /\ d[p] = b THEN nb2
     ELSE d[p]]

\* SplitBucket, lines 132-139: the slots of `b` go to nb (the low step1 bits
\* differ from step) or to nb2 (they equal step); the other slots stay.
Reassigned(d, b, nb, nb2, step1, step) ==
  [p \in DOMAIN d |->
     IF BitAnd(p - 1, step1) # step /\ d[p] = b THEN nb
     ELSE IF BitAnd(p - 1, step1) = step /\ d[p] = b THEN nb2
     ELSE d[p]]

\* SplitBucket counting both buckets it has made.
CountedTwice(n) == n + 2

\* ++num_buckets_, line 140.
Counted(n) == n + 1

\* SplitBucket, lines 123-140: deepen the old bucket, make the two new ones,
\* repoint the directory, count the new bucket.
SplitDirectory ==
  /\ pc = "split"
  /\ LET index == IndexOf(global_depth, op.key)
         b == dir[index + 1]
         depth == buckets[b].depth + 1
         nb == FreshId(DOMAIN buckets)
         nb2 == FreshId(DOMAIN buckets \cup {nb})
         step1 == Mask(depth)
         step == BitAnd(index, step1)
     IN  /\ buckets' = [id \in DOMAIN buckets \cup {nb, nb2} |->
                          IF id = b THEN [buckets[b] EXCEPT !.depth = depth]
                          ELSE IF id \in {nb, nb2} THEN NewBucket(bucket_size, depth)
                          ELSE buckets[id]]
         /\ dir' = Reassigned(dir, b, nb, nb2, step1, step)
         /\ split' = [bucket |-> b, new_bucket |-> nb, new_bucket2 |-> nb2,
                      step1 |-> step1, step |-> step]
  /\ num_buckets' = Counted(num_buckets)
  /\ pc' = "items"
  /\ UNCHANGED <<global_depth, bucket_size, bucket, op>>

\* SplitBucket's item loop with the test of line 145 turned round.
RECURSIVE RedistributedInverted(_, _, _, _)
RedistributedInverted(bs, items, i, s) ==
  IF i > Len(items) THEN bs
  ELSE LET item == items[i]
           tempp == Hash(item[1])
           target == IF BitAnd(tempp, s.step1) = s.step THEN s.new_bucket ELSE s.new_bucket2
           r == BucketInsert(bs[target], item[1], item[2])
       IN  RedistributedInverted([bs EXCEPT ![target] = r.b], items, i + 1, s)

\* SplitBucket, lines 143-151: the buckets after the items from position i on
\* have been inserted into new_bucket or new_bucket2 (the results are ignored).
RECURSIVE Redistributed(_, _, _, _)
Redistributed(bs, items, i, s) ==
  IF i > Len(items) THEN bs
  ELSE LET item == items[i]
           tempp == Hash(item[1])
           target == IF BitAnd(tempp, s.step1) # s.step THEN s.new_bucket ELSE s.new_bucket2
           r == BucketInsert(bs[target], item[1], item[2])
       IN  Redistributed([bs EXCEPT ![target] = r.b], items, i + 1, s)

SplitItems ==
  /\ pc = "items"
  /\ buckets' = Redistributed(buckets, buckets[split.bucket].list, 1, split)
  /\ pc' = "retry"
  /\ UNCHANGED <<dir, global_depth, num_buckets, bucket_size, bucket, split, op>>

\* Insert, lines 102-103 and the next evaluation of the loop condition;
\* SplitBucket has returned, its handles are gone.
Retry ==
  /\ pc = "retry"
  /\ TryInsert(dir, buckets, op.key, op.value)
  /\ split' = NoSplit
  /\ op' = [op EXCEPT !.iterations = op.iterations + 1]
  /\ UNCHANGED <<dir, global_depth, num_buckets, bucket_size>>

\* -------------------------------------------------------------- accessors
\* GetGlobalDepth, lines 35-44.
GetGlobalDepth ==
  /\ pc = "idle"
  /\ op' = [name |-> "GetGlobalDepth", key |-> 0, value |-> NoVal, ret |-> TRUE,
            iterations |-> 0, result |-> global_depth]
  /\ UNCHANGED <<dir, buckets, global_depth, num_buckets, bucket_size, pc, bucket, split>>

\* GetNumBuckets, lines 57-66.
GetNumBuckets ==
  /\ pc = "idle"
  /\ op' = [name |-> "GetNumBuckets", key |-> 0, value |-> NoVal, ret |-> TRUE,
            iterations |-> 0, result |-> num_buckets]
  /\ UNCHANGED <<dir, buckets, global_depth, num_buckets, bucket_size, pc, bucket, split>>

\* dir_index names a directory slot.
InRange(d, dir_index) == dir_index \in 0 .. (Len(d) - 1)

\* What a read through a handle that is not in the directory can return.
GarbageDepths == -1 .. MaxDepth

\* GetLocalDepth, lines 46-55: dir_[dir_index]->GetDepth() with no test of
\* dir_index.  For an index outside the directory the subscript is undefined
\* behaviour: the call returns whatever it reads, or the process stops at the
\* wild access (pc = "crashed", nothing runs afterwards).
GetLocalDepth(dir_index) ==
  /\ pc = "idle"
  /\ IF InRange(dir, dir_index)
     THEN /\ op' = [name |-> "GetLocalDepth", key |-> dir_index, value |-> NoVal,
                    ret |-> TRUE, iterations |-> 0,
                    result |-> buckets[dir[dir_index + 1]].depth]
          /\ pc' = "idle"
     ELSE \/ /\ \E g \in GarbageDepths :
                  op' = [name |-> "GetLocalDepth", key |-> dir_index, value |-> NoVal,
                         ret |-> TRUE, iterations |-> 0, result |-> g]
             /\ pc' = "idle"
          \/ /\ op' = [name |-> "GetLocalDepth", key |-> dir_index, value |-> NoVal,
                       ret |-> FALSE, iterations |-> 0, result |-> 0]
             /\ pc' = "crashed"
  /\ UNCHANGED <<dir, buckets, global_depth, num_buckets, bucket_size, bucket, split>>

\* ------------------------------------------------------- specifications
\* A step of the table taken by a single caller: the latch is free before
\* and after every call, and the calls are not recorded.
Sequential(A) == A /\ UNCHANGED callers

\* One caller, calls of Find, Remove and Insert on any key.
Next ==
  \/ \E k \in Keys : Sequential(Find(k))
  \/ \E k \in Keys : Sequential(Remove(k))
  \/ \E k \in Keys, v \in Vals : Sequential(Insert(k, v))
  \/ Sequential(GrowGlobalDepth)
  \/ Sequential(NoGrow)
  \/ Sequential(DoubleDirectory)
  \/ Sequential(SplitDirectory)
  \/ Sequential(SplitItems)
  \/ Sequential(Retry)

Spec == Init /\ [][Next]_vars

\* The indices GetLocalDepth is called with: every slot, one below, one above.
Indices == -1 .. Len(dir)

\* The value of the Insert calls made next to the accessors, which read no value.
AccessVals == {"a"}

\* One caller that also reads the accessors, GetLocalDepth with any index.
AccessNext ==
  \/ \E k \in Keys : Sequential(Remove(k))
  \/ \E k \in Keys, v \in AccessVals : Sequential(Insert(k, v))
  \/ Sequential(GrowGlobalDepth)
  \/ Sequential(NoGrow)
  \/ Sequential(DoubleDirectory)
  \/ Sequential(SplitDirectory)
  \/ Sequential(SplitItems)
  \/ Sequential(Retry)
  \/ Sequential(GetGlobalDepth)
  \/ Sequential(GetNumBuckets)
  \/ \E i \in Indices : Sequential(GetLocalDepth(i))

AccessSpec == Init /\ [][AccessNext]_vars

\* std::mutex::lock returning at once whether or not the mutex is owned.
AcquirableAlways(l) == TRUE

\* std::mutex::lock returns only when no thread owns the mutex.
Acquirable(l) == l = 0

\* std::scoped_lock<std::mutex> lock(latch_), the first statement of every
\* public operation: thread t waits until the latch is free and takes it.
Lock(t) ==
  /\ threads[t] = "out"
  /\ Acquirable(latch)
  /\ latch' = t
  /\ threads' = [threads EXCEPT ![t] = "locked"]
  /\ UNCHANGED <<table, calls>>

\* Thread t, past the lock, runs the body of the operation it called ...
Enter(t, A) ==
  /\ threads[t] = "locked"
  /\ A
  /\ threads' = [threads EXCEPT ![t] = IF pc' = "idle" THEN "returning" ELSE "running"]
  /\ UNCHANGED <<latch, calls>>

\* ... and the next statement of its Insert.
Continue(t, A) ==
  /\ threads[t] = "running"
  /\ A
  /\ threads' = [threads EXCEPT ![t] = IF pc' = "idle" THEN "returning" ELSE "running"]
  /\ UNCHANGED <<latch, calls>>

\* The destructor of the scoped_lock at the return of the operation.
Unlock(t) ==
  /\ threads[t] = "returning"
  /\ latch' = 0
  /\ threads' = [threads EXCEPT ![t] = "out"]
  /\ UNCHANGED <<table, calls>>

\* The keys of the concurrent calls: one for every hash value.
ConcKeys == 0 .. 3
\* The value of the concurrent Insert calls.
ConcVals == {"a"}

\* Threads calling Find, Remove, Insert and the accessors (GetLocalDepth
\* with the index of a slot) in parallel.
ConcNext ==
  \/ \E t \in Threads : Lock(t)
  \/ \E t \in Threads : Unlock(t)
  \/ \E t \in Threads, k \in ConcKeys : Enter(t, Find(k))
  \/ \E t \in Threads, k \in ConcKeys : Enter(t, Remove(k))
  \/ \E t \in Threads, k \in ConcKeys, v \in ConcVals : Enter(t, Insert(k, v))
  \/ \E t \in Threads : Enter(t, GetGlobalDepth)
  \/ \E t \in Threads : Enter(t, GetNumBuckets)
  \/ \E t \in Threads : \E i \in 0 .. (Len(dir) - 1) : Enter(t, GetLocalDepth(i))
  \/ \E t \in Threads : Continue(t, GrowGlobalDepth)
  \/ \E t \in Threads : Continue(t, NoGrow)
  \/ \E t \in Threads : Continue(t, DoubleDirectory)
  \/ \E t \in Threads : Continue(t, SplitDirectory)
  \/ \E t \in Threads : Continue(t, SplitItems)
  \/ \E t \in Threads : Continue(t, Retry)

ConcSpec == Init /\ [][ConcNext]_vars

\* A step of the table taken by a single caller who keeps the list of the
\* Insert calls that have returned.
Recorded(A) ==
  /\ A
  /\ calls' = IF pc' = "idle" /\ op'.name = "Insert"
              THEN Append(calls, <<op'.key, op'.value>>)
              ELSE calls
  /\ UNCHANGED <<latch, threads>>

\* Four keys whose hashes are 0b00, 0b01, 0b10, 0b11, in the order of their
\* Insert calls.
ScenarioKeys == <<0, 1, 2, 3>>

\* A fresh table with bucket_size = 2.
ScenarioInit == Init /\ bucket_size = 2

\* The four keys are inserted in order, each once, with any value; between
\* the Insert calls the caller looks keys up and reads the accessors.  (The
\* scenario never reaches the false branch of line 97.)
ScenarioNext ==
  \/ \E v \in Vals :
       /\ Len(calls) < Len(ScenarioKeys)
       /\ Recorded(Insert(ScenarioKeys[Len(calls) + 1], v))
  \/ \E k \in Range(ScenarioKeys) : Recorded(Find(k))
  \/ Recorded(GetGlobalDepth)
  \/ Recorded(GetNumBuckets)
  \/ Recorded(GrowGlobalDepth)
  \/ Recorded(DoubleDirectory)
  \/ Recorded(SplitDirectory)
  \/ Recorded(SplitItems)
  \/ Recorded(Retry)

ScenarioSpec == ScenarioInit /\ [][ScenarioNext]_vars

\* ------------------------------------------------------------ vocabulary
\* No operation is running: the state a caller can observe.
Idle == pc = "idle"

\* The buckets the directory references.
Referenced == Range(dir)

\* The directory slots (numbered from 0) that point at bucket b.
SlotsOf(b) == {i \in 0 .. (Len(dir) - 1) : dir[i + 1] = b}

\* The positions <<b, p>> of the referenced buckets that hold key k.
Occurrences(k) ==
  {bp \in UNION {{<<b, p>> : p \in DOMAIN buckets[b].list} : b \in Referenced} :
     buckets[bp[1]].list[bp[2]][1] = k}

\* What Find(k) reports in the current state and in the next one.
Found(k) == TableFind(dir, buckets, global_depth, k)
FoundNext(k) == TableFind(dir', buckets', global_depth', k)

\* The step is the call of the named operation on key k.
Calls(name, k) == pc = "idle" /\ op'.name = name /\ op'.key = k

\* ----------------------------------------------------------------- claims

\* C1: when Insert(k, v) has returned, a Find(k) that follows immediately
\* reports k present with value v, whichever path the Insert took.
C1_RoundTrip ==
  (Idle /\ op.name = "Insert") =>
    Found(op.key) = [ret |-> TRUE, value |-> op.value]

\* C1 witness: an Insert that went through at least two grow/split
\* iterations has returned and its key is found with its value.
C1_Witness ==
  /\ Idle /\ op.name = "Insert"
  /\ op.iterations >= 2
  /\ Found(op.key) = [ret |-> TRUE, value |-> op.value]

\* C2: the global depth never grows past the hash width (an Insert of keys
\* that agree on every hash bit ends with DepthExhausted instead).
C2_DepthBounded == global_depth <= HashWidth

\* C3: after every completed public operation the directory length is
\* 2^global depth.
C3_DirectoryLength == Idle => Len(dir) = 2 ^ global_depth

\* C3 witness: an Insert that doubled the directory twice, from length 1 to
\* length 4, has returned.
C3_Witness ==
  /\ Idle /\ op.name = "Insert" /\ op.iterations = 2
  /\ global_depth = 2 /\ num_buckets = 3 /\ Len(dir) = 4

\* C4: after every completed public operation every referenced bucket has
\* local depth <= global depth and exactly 2^(global depth - local depth)
\* directory slots.
C4_Coverage ==
  Idle => \A b \in Referenced :
            /\ buckets[b].depth <= global_depth
            /\ Cardinality(SlotsOf(b)) = 2 ^ (global_depth - buckets[b].depth)

\* C4 witness: a table with a bucket shallower than the directory (two slots)
\* next to buckets as deep as the directory.
C4_Witness ==
  /\ Idle
  /\ \E b \in Referenced : buckets[b].depth < global_depth /\ Cardinality(SlotsOf(b)) = 2
  /\ \E b \in Referenced : buckets[b].depth = global_depth /\ global_depth >= 2

\* C5: after every completed public operation the slots of a bucket B are
\* exactly the slots that share B's low B.localDepth index bits.
C5_AddressPrefix ==
  Idle => \A b \in Referenced : \A i \in SlotsOf(b) :
            \A j \in 0 .. (Len(dir) - 1) :
               (j \in SlotsOf(b)) <=>
                 (BitAnd(j, Mask(buckets[b].depth)) = BitAnd(i, Mask(buckets[b].depth)))

\* C5 witness: a bucket of local depth 1 that owns two slots of a directory
\* of length 4.
C5_Witness ==
  /\ Idle /\ Len(dir) = 4
  /\ \E b \in Referenced : buckets[b].depth = 1 /\ Cardinality(SlotsOf(b)) = 2

\* C6: after every completed public operation no referenced bucket holds more
\* than bucket_size entries, and when a split has redistributed the entries of
\* the old bucket, the two new buckets hold all of them within their capacity.
C6_Capacity ==
  /\ Idle => \A b \in Referenced : Len(buckets[b].list) <= bucket_size
  /\ pc = "retry" =>
       /\ Len(buckets[split.new_bucket].list) <= bucket_size
       /\ Len(buckets[split.new_bucket2].list) <= bucket_size
       /\ Len(buckets[split.new_bucket].list) + Len(buckets[split.new_bucket2].list)
            = Len(buckets[split.bucket].list)

\* C6 witness: an Insert that split a full bucket has returned and left a
\* full bucket.
C6_Witness ==
  /\ Idle /\ op.name = "Insert" /\ op.iterations >= 1 /\ bucket_size = 2
  /\ \E b \in Referenced : Len(buckets[b].list) = bucket_size

\* C7: after every completed public operation each key occurs in at most one
\* entry of the buckets the directory references.
C7_KeyUnique == Idle => \A k \in Keys : Cardinality(Occurrences(k)) <= 1

\* C7 witness: after a split, the key of the Insert that returned last was
\* already in its bucket (ahead of a later entry) and is still there once.
C7_Witness ==
  /\ Idle /\ op.name = "Insert" /\ num_buckets >= 2
  /\ Cardinality(Occurrences(op.key)) = 1
  /\ \E b \in Referenced : Len(buckets[b].list) = 2 /\ buckets[b].list[1][1] = op.key

\* C8: Insert(k, v2) of a present key returns after its first attempt with k
\* mapped to v2 and nothing else changed: directory, global depth, bucket
\* count, local depths, the other entries.
C8_Update ==
  [][\A k \in Keys :
       (Calls("Insert", k) /\ Found(k).ret) =>
         /\ pc' = "idle"
         /\ FoundNext(k) = [ret |-> TRUE, value |-> op'.value]
         /\ dir' = dir /\ global_depth' = global_depth /\ num_buckets' = num_buckets
         /\ DOMAIN buckets' = DOMAIN buckets
         /\ \A b \in DOMAIN buckets :
              /\ buckets'[b].depth = buckets[b].depth
              /\ Len(buckets'[b].list) = Len(buckets[b].list)
              /\ \A p \in DOMAIN buckets[b].list :
                   IF buckets[b].list[p][1] = k
                   THEN buckets'[b].list[p] = <<k, op'.value>>
                   ELSE buckets'[b].list[p] = buckets[b].list[p]]_vars

\* C8 witness: an Insert has returned, its key sits in a full bucket together
\* with another key, and holds the value of the call (the state after an
\* overwrite in a full bucket, and the state before the next one).
C8_Witness ==
  /\ Idle /\ op.name = "Insert" /\ op.iterations = 0 /\ bucket_size = 2
  /\ \E b \in Referenced :
       /\ IsFull(buckets[b])
       /\ buckets[b].list[1] = <<op.key, op.value>>
       /\ buckets[b].list[2][1] # op.key

\* C9: Remove(k) of a present key returns true, leaves k absent and every
\* other key findable with the value it had.
C9_RemovePresent ==
  [][\A k \in Keys :
       (Calls("Remove", k) /\ Found(k).ret) =>
         /\ op'.ret = TRUE
         /\ pc' = "idle"
         /\ FoundNext(k).ret = FALSE
         /\ \A j \in Keys \ {k} : FoundNext(j) = Found(j)]_vars

\* C9 witness: Remove has returned true on a table that still holds other keys.
C9_Witness ==
  /\ Idle /\ op.name = "Remove" /\ op.ret = TRUE
  /\ Found(op.key).ret = FALSE
  /\ \E j \in Keys : Found(j).ret

\* C10: Remove(k) of an absent key returns false and changes nothing of the
\* table.
C10_RemoveAbsent ==
  [][\A k \in Keys :
       (Calls("Remove", k) /\ ~Found(k).ret) =>
         /\ op'.ret = FALSE
         /\ pc' = "idle"
         /\ UNCHANGED <<dir, buckets, global_depth, num_buckets, bucket_size>>]_vars

\* C10 witness: Remove has returned false on a table that holds keys in
\* several buckets.
C10_Witness ==
  /\ Idle /\ op.name = "Remove" /\ op.ret = FALSE
  /\ num_buckets >= 2
  /\ \E j \in Keys : Found(j).ret

\* C11: a GetLocalDepth call whose index is outside 0 .. Len(dir) - 1 fails
\* with a defined error: it returns no depth, the process goes on (the table
\* is idle and as it was, GetLocalDepth assigning nothing but its result).
C11_InvalidIndex ==
  (op.name = "GetLocalDepth" /\ ~InRange(dir, op.key)) =>
    (pc = "idle" /\ op.ret = FALSE)

\* The threads that are inside a public operation (past its lock, not yet
\* past its unlock).
InsideOp == {t \in Threads : threads[t] # "out"}

\* A step of the table as a single caller takes it: one whole Find, Remove or
\* accessor call, the first attempt of an Insert, or the next statement of the
\* Insert that is running.
TableStep ==
  \/ \E k \in Keys : Find(k)
  \/ \E k \in Keys : Remove(k)
  \/ \E k \in Keys, v \in Vals : Insert(k, v)
  \/ GetGlobalDepth
  \/ GetNumBuckets
  \/ \E i \in 0 .. (Len(dir) - 1) : GetLocalDepth(i)
  \/ GrowGlobalDepth
  \/ NoGrow
  \/ DoubleDirectory
  \/ SplitDirectory
  \/ SplitItems
  \/ Retry

\* C12: with threads calling in parallel, at most one thread is inside a
\* public operation and it owns the latch; an operation starts only on a
\* table no Insert is in the middle of, a table in the middle of an Insert
\* belongs to the thread running that Insert, and the table and the results
\* change as under a single caller making the same calls one after another.
C12_Serialized ==
  /\ [](/\ Cardinality(InsideOp) <= 1
        /\ \A t \in InsideOp : latch = t
        /\ \A t \in Threads : threads[t] = "locked" => pc = "idle"
        /\ pc # "idle" => \E t \in Threads : threads[t] = "running" /\ latch = t)
  /\ [][TableStep]_table

\* C12 witness: thread 2 is in the middle of an Insert that has split a
\* bucket, on a table that holds a key stored by an earlier call, while
\* thread 1 is outside.
C12_Witness ==
  /\ pc = "retry"
  /\ threads = [t \in Threads |-> IF t = 2 THEN "running" ELSE "out"]
  /\ latch = 2
  /\ buckets[split.bucket].list # <<>>

\* The keys in the table, the key of the running Insert included.
KeysPresent ==
  {k \in Keys : \E b \in DOMAIN buckets : Position(buckets[b].list, k) # 0}
    \cup (IF pc # "idle" /\ op.name = "Insert" THEN {op.key} ELSE {})

\* No more than bucket_size of the keys present share a full hash value.
BoundedKeySpace ==
  \A h \in 0 .. (2 ^ FullHashWidth - 1) :
    Cardinality({k \in KeysPresent : FullHash(k) = h}) <= bucket_size

\* C13: while no more than bucket_size keys share a full hash value, an
\* Insert stores its key within as many grow/split iterations as the hash
\* has bits, and the global depth stays within the width of the hash.
C13_InsertTerminates ==
  BoundedKeySpace =>
    /\ global_depth <= FullHashWidth
    /\ op.name = "Insert" => op.iterations <= FullHashWidth

\* C14: no step lowers the global depth, the directory length, the bucket
\* counter, the local depth of a bucket or the local depth found at a
\* directory slot; Find and Remove leave them all as they are, also when
\* the Remove empties a bucket.
C14_NoShrink ==
  [][/\ global_depth' >= global_depth
     /\ Len(dir') >= Len(dir)
     /\ num_buckets' >= num_buckets
     /\ \A b \in DOMAIN buckets \cap DOMAIN buckets' :
          buckets'[b].depth >= buckets[b].depth
     /\ \A i \in DOMAIN dir : buckets'[dir'[i]].depth >= buckets[dir[i]].depth
     /\ (pc = "idle" /\ op'.name \in {"Find", "Remove"}) =>
          /\ global_depth' = global_depth
          /\ dir' = dir
          /\ num_buckets' = num_buckets
          /\ DOMAIN buckets' = DOMAIN buckets
          /\ \A b \in DOMAIN buckets : buckets'[b].depth = buckets[b].depth]_vars

\* C14 witness: a Remove has emptied a bucket of local depth 2 and the table
\* still has its three buckets and its four slots.
C14_Witness ==
  /\ Idle /\ op.name = "Remove" /\ op.ret
  /\ global_depth = 2 /\ Len(dir) = 4 /\ num_buckets = 3
  /\ LET b == dir[IndexOf(global_depth, op.key) + 1]
     IN  buckets[b].list = <<>> /\ buckets[b].depth = 2

\* The keys stored in bucket b.
KeysIn(b) == {buckets[b].list[p][1] : p \in DOMAIN buckets[b].list}

\* C15: in the scenario (bucket_size = 2, keys with hashes 0b00, 0b01, 0b10,
\* 0b11 inserted in this order into a fresh table) the first two Inserts
\* leave global depth 0 and one bucket; the third is the only one to enter
\* the loop, it grows the directory to length 2, splits the bucket by bit 0
\* and succeeds after that one iteration; from then on the global depth is 1
\* and there are 2 buckets, as GetGlobalDepth and GetNumBuckets report, and
\* every key inserted so far is found with its value.
C15_Scenario ==
  LET n == Len(calls) IN
  /\ (Idle /\ n <= 2) =>
       global_depth = 0 /\ Len(dir) = 1 /\ num_buckets = 1
  /\ pc # "idle" =>
       /\ n = 2 /\ op.name = "Insert" /\ op.key = ScenarioKeys[3] /\ op.iterations = 0
       /\ pc \in {"double", "split", "items", "retry"} => global_depth = 1
       /\ pc \in {"split", "items", "retry"} => Len(dir) = 2
       /\ pc \in {"items", "retry"} => split.step1 = 1 /\ num_buckets = 2
  /\ (Idle /\ n = 3 /\ op.name = "Insert") => op.iterations = 1
  /\ (Idle /\ n = 4 /\ op.name = "Insert") => op.iterations = 0
  /\ (Idle /\ n >= 3) =>
       /\ global_depth = 1 /\ Len(dir) = 2 /\ num_buckets = 2
       /\ dir[1] # dir[2]
       /\ \A i \in 0 .. 1 :
            /\ buckets[dir[i + 1]].depth = 1
            /\ \A k \in KeysIn(dir[i + 1]) : BitAnd(Hash(k), 1) = i
       /\ op.name = "GetGlobalDepth" => op.result = 1
       /\ op.name = "GetNumBuckets" => op.result = 2
  /\ Idle => \A i \in 1 .. n :
       /\ calls[i][1] = ScenarioKeys[i]
       /\ Found(calls[i][1]) = [ret |-> TRUE, value |-> calls[i][2]]

\* C15 witness: the four Inserts have returned and GetNumBuckets has been
\* read after them.
C15_Witness ==
  /\ Idle /\ Len(calls) = 4
  /\ op.name = "GetNumBuckets" /\ op.result = 2
  /\ \A k \in Range(ScenarioKeys) : Found(k).ret

\* The entries <<key, value>> of bucket b among the buckets bs.
EntriesOf(bs, b) == {bs[b].list[p] : p \in DOMAIN bs[b].list}

\* The entry of key k as a caller will find it once the running iteration of
\* Insert's loop is through: between global_depth_++ and DoubleDirectory the
\* directory still has the length of the depth before, and between the
\* reassignment of the slots and the item loop the entries of the bucket
\* being split are still in that bucket only.
Lookup(d, bs, gd, p, s, k) ==
  IF p = "double" THEN TableFind(d, bs, gd - 1, k)
  ELSE IF p = "items" /\ Position(bs[s.bucket].list, k) # 0
  THEN BucketFind(bs[s.bucket], k)
  ELSE TableFind(d, bs, gd, k)

\* C16: the item loop of SplitBucket leaves in the two new buckets exactly
\* the entries of the old one, each once and no key in both, and each is
\* found through the directory with its value; and no step of an Insert
\* changes what is found for a key other than the inserted one, so a key
\* found before the Insert is found with the same value after it.
C16_Lossless ==
  [][/\ pc = "items" =>
          LET old == split.bucket
              nb == split.new_bucket
              nb2 == split.new_bucket2
          IN  /\ buckets'[old] = buckets[old]
              /\ EntriesOf(buckets', nb) \cup EntriesOf(buckets', nb2)
                   = EntriesOf(buckets, old)
              /\ Len(buckets'[nb].list) + Len(buckets'[nb2].list)
                   = Len(buckets[old].list)
              /\ \A k \in Keys : Position(buckets'[nb].list, k) = 0
                                  \/ Position(buckets'[nb2].list, k) = 0
              /\ \A e \in EntriesOf(buckets, old) :
                   FoundNext(e[1]) = [ret |-> TRUE, value |-> e[2]]
     /\ (pc # "idle" \/ op'.name = "Insert") =>
          \A k \in Keys \ {op'.key} :
            Lookup(dir', buckets', global_depth', pc', split', k)
              = Lookup(dir, buckets, global_depth, pc, split, k)]_vars

\* C16 witness: a SplitBucket on a directory of four slots has moved the two
\* entries of the old bucket, one into each new bucket.
C16_Witness ==
  /\ pc = "retry" /\ Len(dir) = 4
  /\ Len(buckets[split.bucket].list) = 2
  /\ Len(buckets[split.new_bucket].list) = 1
  /\ Len(buckets[split.new_bucket2].list) = 1

\* C17: the slot loop of SplitBucket, for the old bucket b at the index of
\* the inserted key and d = its local depth + 1, leaves every slot that did
\* not point at b as it was, sends the slots of b whose low d bits are those
\* of the index to one new bucket and the other slots of b to the other new
\* bucket; the two buckets are new, distinct, of local depth d, each gets at
\* least one slot, and no slot points at b afterwards.
C17_SplitPartition ==
  [][pc = "split" =>
       LET index == IndexOf(global_depth, op.key)
           b == dir[index + 1]
           d == buckets[b].depth + 1
           nb == split'.new_bucket
           nb2 == split'.new_bucket2
       IN  /\ split'.bucket = b
           /\ nb \notin DOMAIN buckets /\ nb2 \notin DOMAIN buckets /\ nb # nb2
           /\ Len(dir') = Len(dir)
           /\ \A p \in DOMAIN dir :
                dir'[p] = IF dir[p] # b THEN dir[p]
                          ELSE IF (p - 1) % (2 ^ d) = index % (2 ^ d) THEN nb2
                          ELSE nb
           /\ \E p \in DOMAIN dir : dir'[p] = nb
           /\ \E p \in DOMAIN dir : dir'[p] = nb2
           /\ buckets'[nb].depth = d /\ buckets'[nb2].depth = d
           /\ b \notin Range(dir')]_vars

\* C17 witness: SplitBucket has reassigned the two slots of a bucket in a
\* directory of four, one to each new bucket; the other two slots point at
\* other buckets.
C17_Witness ==
  /\ pc = "items" /\ Len(dir) = 4 /\ split.step1 = 3
  /\ Cardinality(SlotsOf(split.new_bucket)) = 1
  /\ Cardinality(SlotsOf(split.new_bucket2)) = 1
  /\ SlotsOf(split.new_bucket2) = {IndexOf(global_depth, op.key)}
  /\ split.bucket \notin Referenced

\* C18: Insert's loop body goes to DoubleDirectory exactly when the full
\* bucket's local depth equals the global depth, and DoubleDirectory makes
\* the directory twice as long, slot i and slot i + old length both holding
\* what slot i held, and changes no bucket (local depth, entries) and not
\* the bucket counter.
C18_Grow ==
  [][/\ pc = "body" => (pc' = "double" <=> buckets[bucket].depth = global_depth)
     /\ pc = "double" =>
          /\ buckets[bucket].depth = global_depth - 1
          /\ Len(dir') = 2 * Len(dir)
          /\ \A i \in DOMAIN dir : dir'[i] = dir[i] /\ dir'[i + Len(dir)] = dir[i]
          /\ buckets' = buckets
          /\ num_buckets' = num_buckets /\ global_depth' = global_depth]_vars

\* C18 witness: DoubleDirectory has doubled a directory of two slots that
\* pointed at different buckets; the bucket has not been split yet.
C18_Witness ==
  /\ pc = "split" /\ Len(dir) = 4
  /\ buckets[bucket].depth = global_depth - 1
  /\ dir[1] # dir[2]
  /\ dir[3] = dir[1] /\ dir[4] = dir[2]

\* C19: when no operation is running, every entry stored in a bucket of the
\* directory is in the bucket that its key is addressed to, and the low
\* local-depth bits of its hash are those of every slot of that bucket: no
\* stored entry is out of the reach of Find and Remove.
C19_Placement ==
  Idle =>
    \A b \in Referenced : \A k \in KeysIn(b) :
      /\ dir[IndexOf(global_depth, k) + 1] = b
      /\ \A i \in SlotsOf(b) :
           BitAnd(i, Mask(buckets[b].depth)) = BitAnd(Hash(k), Mask(buckets[b].depth))
      /\ Found(k).ret

\* C19 witness: three buckets of a directory of four slots each hold an
\* entry, after Inserts that split twice.
C19_Witness ==
  /\ Idle /\ global_depth = 2 /\ num_buckets = 3
  /\ Cardinality(Referenced) = 3
  /\ \A b \in Referenced : buckets[b].list # <<>>

\* C20: when no operation is running, num_buckets_ is the number of distinct
\* buckets in the directory, empty ones included, and GetNumBuckets returns
\* that number; every SplitBucket adds one to both.
C20_CounterAgreement ==
  /\ Idle => num_buckets = Cardinality(Referenced)
  /\ (Idle /\ op.name = "GetNumBuckets") => op.result = Cardinality(Referenced)
  /\ pc \in {"items", "retry"} =>
       /\ num_buckets = Cardinality(Referenced)
       /\ Cardinality(Referenced) = Cardinality(Referenced \ {split.new_bucket, split.new_bucket2}) + 2

\* C20 witness: GetNumBuckets has returned 3 on a table that split twice
\* and has an empty bucket.
C20_Witness ==
  /\ Idle /\ op.name = "GetNumBuckets" /\ op.result = 3
  /\ Cardinality(Referenced) = 3
  /\ \E b \in Referenced : buckets[b].list = <<>>
====
